---- MODULE Spec2Model ----
(***************************************************************************)
(* Job orchestration layer of the SeedVR inference API server              *)
(* (src/api_server.py): the in-memory task store, the create / status /    *)
(* list / download / delete endpoints and the background process_video     *)
(* coroutine.                                                              *)
(*                                                                         *)
(* Execution model.  Every endpoint and process_video itself is an         *)
(* `async def`; uvicorn runs them on one event loop (workers = 1), so a    *)
(* coroutine runs without interruption between two awaits.  process_video  *)
(* has exactly one await (`await video.read()`, line 214); the call of     *)
(* generation_loop (lines 228-240) is an ordinary synchronous call made    *)
(* on the event loop, so while it is in progress no other coroutine runs.  *)
(* The engine invocation is modelled with an entry step and a return step  *)
(* so that "the engine call is in progress" is a state of the model.       *)
(***************************************************************************)
EXTENDS Integers, Sequences, FiniteSets, TLC

\* ---------------------------------------------------------------- bounds
MaxTasks == 2      \* number of task ids uuid4 can hand out in a run

TaskIds == 1 .. MaxTasks

MaxCalls == 2      \* number of handler calls the serverless worker receives

\* time.time() - start_time: a positive duration; no decision of the program
\* reads it, so one representative value stands for all of them
Elapsed == {1}

\* ------------------------------------------------------------- constants
\* Python's None for the Optional fields of a record
None == << >>

\* the run is not inside its except-branch
NoFault == ""

\* content types an upload can carry, as token sequences
\* ("video/mp4", "image/png", "video" without a slash, and the empty string)
ContentTypes ==
    { <<"video", "/", "mp4">>, <<"image", "/", "png">>, <<"video">>, << >> }

\* the prefix tested at line 160
VideoPrefix == <<"video", "/">>

\* values a client may put in a model_size query parameter of POST /inference
\* ("absent" = parameter not sent); the endpoint declares no such parameter
QueryModelSizes == {"absent", "3b", "7b", "13b"}

\* values of the MODEL_SIZE environment variable read by lifespan
EnvModelSizes == {"7b", "3b", "13b"}

\* engine variants load_model accepts
SupportedSizes == {"7b", "3b"}

\* names of the files generation_loop may leave in output_dir
FileNames == {"a.mp4", "b.mp4"}

\* what one engine invocation can do: raise, or return having written files
EngineOutcomes ==
    { [raises |-> TRUE, files |-> {}] } \cup
    { [raises |-> FALSE, files |-> fs] : fs \in SUBSET FileNames }

VARIABLES
    started,       \* lifespan startup has run (requests are served after it)
    model_loaded,  \* global model_loaded
    tasks,         \* global tasks: task_id -> record
    issued,        \* task ids uuid4 has already returned
    pc,            \* position of the process_video run of each task id
    request,       \* InferenceRequest handed to each run (its model_size)
    workspace,     \* task ids whose temp_dir currently exists
    storage,       \* files present in /app/results, as <<task_id, name>>
    deleted,       \* task ids for which delete_task has succeeded
    fault,         \* str(e) of the exception a run is handling (line 266)
    resp           \* the HTTP request answered by the latest step of the
                   \* server, with its response (NoResponse after a step of
                   \* a background run)

\* state of the RunPod serverless worker (src/runpod_handler.py)
VARIABLES
    worker,        \* global worker: None or << the SeedVRWorker >>
    constructed,   \* number of SeedVRWorker objects constructed successfully
    calls,         \* number of handler calls made so far
    tmpfiles,      \* calls whose NamedTemporaryFile input still exists
    outdirs,       \* calls whose mkdtemp output directory still exists
    last           \* what the latest handler call did and returned

api_vars == << started, model_loaded, tasks, issued, pc, request, workspace,
              storage, deleted, fault, resp >>

sync_vars == << worker, constructed, calls, tmpfiles, outdirs, last >>

vars == << api_vars, sync_vars >>

\* ------------------------------------------------------------- helpers

StartsWithMut(s, p) ==
    /\ Len(s) >= 1
    /\ s[1] = p[1]

\* str.startswith
StartsWith(s, p) ==
    /\ Len(s) >= Len(p)
    /\ SubSeq(s, 1, Len(p)) = p

\* default of InferenceRequest.model_size; create_inference never sets it
InferenceRequest == [model_size |-> "7b"]

\* the module the run imports generation_loop from (lines 222-225)
EngineVariant(req) == IF req.model_size = "7b" THEN "7b" ELSE "3b"

\* the record written by create_inference
NewTask ==
    [ status          |-> "pending",
      message         |-> "Task created, processing will start shortly",
      output_path     |-> None,
      processing_time |-> None ]

FreshIdMut == CHOOSE id \in TaskIds : \A o \in TaskIds : id <= o

\* str(uuid.uuid4()): an id never returned before
FreshId == CHOOSE id \in TaskIds \ issued : \A o \in TaskIds \ issued : id <= o

\* os.path.join(results_dir, f"{task_id}_{output_file.name}")
FinalOutputPath(t, f) == << t, f >>

Response(op, arg, code, detail, body) ==
    [ op |-> op, arg |-> arg, code |-> code, detail |-> detail, body |-> body ]

\* no request was answered in the step
NoResponse == Response("none", None, 0, "", None)

EventLoopFreeMut == TRUE

\* the event loop is free to run another coroutine: no run is between two
\* of its awaits, in particular none is inside the synchronous
\* generation_loop call
EventLoopFree ==
    \A t \in TaskIds : pc[t] \notin {"staging", "engine", "except"}

\* -------------------------------------------- RunPod worker: data
\* job_input.get(key) of a key the job does not carry
Absent == "<None>"

FalsyMut(x) == x = Absent

\* a value Python treats as false in `if not x`
Falsy(x) == x \in {Absent, ""}

\* base64 text of correct length, and one with incorrect padding
GoodB64 == "QUJD"
BadB64 == "QUJ"

\* the numeric parameters of a job: a convertible set and one that
\* float() / int() rejects
GoodParams == {"p1"}
BadParams == "bad"

\* the job inputs a handler call may receive
JobInputs ==
    [ video_data : {Absent, "", GoodB64, BadB64},
      video_url  : {Absent, "/in/v.mp4"},
      params     : GoodParams \cup {BadParams} ]

\* the collaborator call that raises during one handler call, if it is
\* reached (nothing after the first exception is executed, so one failing
\* call per handler call covers every combination)
FailPoints ==
    {"none", "init", "tmp_create", "tmp_write", "mkdtemp", "engine", "encode"}

\* what the collaborators do during one handler call
EnvFailingAt(f, ms) ==
    [ model_size |-> ms,                                       \* MODEL_SIZE
      init       |-> IF f = "init" THEN "raises" ELSE "ok",    \* _initialize_model
      tmp        |-> IF f = "tmp_create" THEN "create_raises"  \* NamedTemporaryFile
                     ELSE IF f = "tmp_write" THEN "write_raises" ELSE "ok",
      mkdtemp    |-> IF f = "mkdtemp" THEN "raises" ELSE "ok",
      engine     |-> IF f = "engine" THEN "raises" ELSE "returns", \* generation_func
      encode     |-> IF f = "encode" THEN "raises" ELSE "ok" ] \* _encode_video_result

Envs == { EnvFailingAt(f, ms) : f \in FailPoints, ms \in EnvModelSizes }

\* no handler call has been made
NoCall ==
    [ job |-> None, raised |-> FALSE, result |-> None, engine_calls |-> 0,
      engine_input |-> None, created_files |-> {}, created_dirs |-> {},
      unlinked |-> {}, init_failed |-> FALSE ]

\* ---------------------------------------------------------------- Init
Init ==
    /\ started = FALSE
    /\ model_loaded = FALSE
    /\ tasks = << >>
    /\ issued = {}
    /\ pc = [t \in TaskIds |-> "none"]
    /\ request = [t \in TaskIds |-> None]
    /\ workspace = {}
    /\ storage = {}
    /\ deleted = {}
    /\ fault = [t \in TaskIds |-> NoFault]
    /\ resp = NoResponse
    /\ worker = None
    /\ constructed = 0
    /\ calls = 0
    /\ tmpfiles = {}
    /\ outdirs = {}
    /\ last = NoCall

\* ------------------------------------------------------------- startup
\* load_model: TRUE iff the size is supported and import/configure succeed
load_model(model_size, ok) == model_size \in SupportedSizes /\ ok

Lifespan ==
    /\ ~started
    /\ \E ms \in EnvModelSizes, ok \in BOOLEAN :
          model_loaded' = load_model(ms, ok)
    /\ started' = TRUE
    /\ UNCHANGED << tasks, issued, pc, request, workspace, storage, deleted,
                    fault, resp >>
    /\ UNCHANGED sync_vars

\* ------------------------------------------------------ record updates
MarkProcessingMut(rec) == rec

\* lines 201-202
MarkProcessing(rec) ==
    [rec EXCEPT !.status = "processing", !.message = "Processing video..."]

MarkCompletedMut(rec, path, el) ==
    [rec EXCEPT !.status = "completed",
                !.message = "Video processing completed successfully",
                !.processing_time = << el >>]

\* lines 257-262
MarkCompleted(rec, path, el) ==
    [rec EXCEPT !.status = "completed",
                !.message = "Video processing completed successfully",
                !.output_path = path,
                !.processing_time = << el >>]

MarkFailedNoTextMut(rec, text, el) ==
    [rec EXCEPT !.status = "failed",
                !.message = "Processing failed",
                !.processing_time = << el >>]

MarkFailedMut(rec, text, el) ==
    [rec EXCEPT !.status = "failed",
                !.message = "Processing failed: " \o text]

\* lines 268-272
MarkFailed(rec, text, el) ==
    [rec EXCEPT !.status = "failed",
                !.message = "Processing failed: " \o text,
                !.processing_time = << el >>]

CleanupMut(ws, t) == ws

\* finally-branch, lines 274-277: shutil.rmtree(temp_dir)
Cleanup(ws, t) == ws \ {t}

RelocateMut(store, path) == store

\* line 253: shutil.move(str(output_file), final_output_path)
Relocate(store, path) == store \cup {path}

RemoveMut(store, t) == store

\* del tasks[task_id]
Remove(store, t) == [x \in DOMAIN store \ {t} |-> store[x]]

create_inferenceMut(ct, ms) ==
    /\ started
    /\ EventLoopFree
    /\ IF ~StartsWith(ct, VideoPrefix)
       THEN /\ resp' = Response("create", [content_type |-> ct, model_size |-> ms],
                                400, "File must be a video", None)
            /\ UNCHANGED << tasks, issued, pc, request >>
       ELSE /\ issued # TaskIds
            /\ LET task_id == FreshId IN
               /\ tasks' = (task_id :> NewTask) @@ tasks
               /\ issued' = issued \cup {task_id}
               /\ request' = [request EXCEPT ![task_id] = InferenceRequest]
               /\ pc' = [pc EXCEPT ![task_id] = "scheduled"]
               /\ resp' = Response("create",
                                   [content_type |-> ct, model_size |-> ms],
                                   200, "Task created successfully",
                                   [task_id |-> task_id, status |-> "pending"])
    /\ UNCHANGED << started, model_loaded, workspace, storage, deleted, fault >>
    /\ UNCHANGED sync_vars

\* ------------------------------------------------------ POST /inference
create_inference(ct, ms) ==
    /\ started
    /\ EventLoopFree
    /\ IF ~model_loaded
       THEN /\ resp' = Response("create", [content_type |-> ct, model_size |-> ms],
                                503, "Model not loaded", None)
            /\ UNCHANGED << tasks, issued, pc, request >>
       ELSE IF ~StartsWith(ct, VideoPrefix)
       THEN /\ resp' = Response("create", [content_type |-> ct, model_size |-> ms],
                                400, "File must be a video", None)
            /\ UNCHANGED << tasks, issued, pc, request >>
       ELSE /\ issued # TaskIds
            /\ LET task_id == FreshId IN
               /\ tasks' = (task_id :> NewTask) @@ tasks
               /\ issued' = issued \cup {task_id}
               /\ request' = [request EXCEPT ![task_id] = InferenceRequest]
               /\ pc' = [pc EXCEPT ![task_id] = "scheduled"]
               /\ resp' = Response("create",
                                   [content_type |-> ct, model_size |-> ms],
                                   200, "Task created successfully",
                                   [task_id |-> task_id, status |-> "pending"])
    /\ UNCHANGED << started, model_loaded, workspace, storage, deleted, fault >>
    /\ UNCHANGED sync_vars

\* ------------------------------------------------- process_video (run)
FailTaskAllMut(t, text, el) ==
    /\ tasks' = [x \in DOMAIN tasks |-> MarkFailed(tasks[x], text, el)]
    /\ pc' = [pc EXCEPT ![t] = "done"]

FailTaskRecreateMut(t, text, el) ==
    /\ tasks' = (t :> MarkFailed(NewTask, text, el)) @@ tasks
    /\ pc' = [pc EXCEPT ![t] = "done"]

FailTaskRetryMut(t, text, el) ==
    /\ tasks' = IF t \in DOMAIN tasks
                THEN [tasks EXCEPT ![t] = MarkFailed(@, text, el)]
                ELSE tasks
    /\ pc' = [pc EXCEPT ![t] = "scheduled"]

FailTaskMut(t, text, el) ==
    /\ tasks' = tasks
    /\ pc' = [pc EXCEPT ![t] = "done"]

\* the update of the except-branch, lines 268-272: it raises KeyError when
\* the record is gone, and that exception leaves the coroutine
FailTask(t, text, el) ==
    IF t \in DOMAIN tasks
    THEN /\ tasks' = [tasks EXCEPT ![t] = MarkFailed(@, text, el)]
         /\ pc' = [pc EXCEPT ![t] = "done"]
    ELSE /\ tasks' = tasks
         /\ pc' = [pc EXCEPT ![t] = "raised"]

\* an exception with str(e) = text is raised inside the try block and
\* control passes to line 266
Raise(t, text) ==
    /\ pc' = [pc EXCEPT ![t] = "except"]
    /\ fault' = [fault EXCEPT ![t] = text]

\* lines 197-202: the run starts and marks its record
pv_start(t) ==
    /\ pc[t] = "scheduled"
    /\ EventLoopFree
    /\ IF t \notin DOMAIN tasks
       THEN \* KeyError at line 201
            /\ Raise(t, "KeyError")
            /\ UNCHANGED tasks
       ELSE /\ tasks' = [tasks EXCEPT ![t] = MarkProcessing(@)]
            /\ pc' = [pc EXCEPT ![t] = "staging"]
            /\ UNCHANGED fault
    /\ resp' = NoResponse
    /\ UNCHANGED << started, model_loaded, issued, request, workspace, storage,
                    deleted >>
    /\ UNCHANGED sync_vars

\* lines 204-214: temp_dir is created and the input file opened, up to the
\* await of video.read(); no await lies between line 202 and line 214
pv_stage(t) ==
    /\ pc[t] = "staging"
    /\ \/ \* staging succeeds; the run suspends at the await
          /\ workspace' = workspace \cup {t}
          /\ pc' = [pc EXCEPT ![t] = "reading"]
          /\ UNCHANGED fault
       \/ \* mkdtemp raises: no temp_dir exists
          /\ Raise(t, "staging error")
          /\ UNCHANGED workspace
       \/ \* makedirs / open raises after mkdtemp has created temp_dir
          /\ Raise(t, "staging error")
          /\ workspace' = workspace \cup {t}
    /\ resp' = NoResponse
    /\ UNCHANGED << started, model_loaded, tasks, issued, request, storage,
                    deleted >>
    /\ UNCHANGED sync_vars

\* lines 214-228: video.read() returns, the input is written, generation_loop
\* is imported and entered
pv_resume(t) ==
    /\ pc[t] = "reading"
    /\ EventLoopFree
    /\ \/ /\ pc' = [pc EXCEPT ![t] = "engine"]
          /\ UNCHANGED fault
       \/ \* read / write / import raises
          Raise(t, "read error")
    /\ resp' = NoResponse
    /\ UNCHANGED << started, model_loaded, tasks, issued, request, workspace,
                    storage, deleted >>
    /\ UNCHANGED sync_vars

\* list(Path(output_dir).glob("*")), line 243: the entries of output_dir in
\* the order the directory yields them, which is any order
glob(files) ==
    { e \in [1 .. Cardinality(files) -> files] :
        \A i, j \in 1 .. Cardinality(files) : e[i] = e[j] => i = j }

\* every way one engine invocation can end: its outcome with a listing of
\* the files it left
EngineReturns ==
    UNION { { << out, e >> : e \in glob(out.files) } : out \in EngineOutcomes }

\* line 247: output_files[0]
SelectOutput(output_files) == output_files[1]

\* lines 228-264 and 274-277 for one engine outcome and one directory
\* listing: generation_loop returns or raises, the output is located and
\* moved, the record is updated; on success the finally-branch removes
\* temp_dir
engine_returned(t, out, output_files) ==
    /\ pc[t] = "engine"
    /\ IF out.raises
       THEN /\ Raise(t, "engine error")
            /\ UNCHANGED << tasks, storage, workspace >>
       ELSE IF output_files = << >>
       THEN /\ Raise(t, "No output file generated")
            /\ UNCHANGED << tasks, storage, workspace >>
       ELSE LET f == SelectOutput(output_files) IN
               \/ \* makedirs / shutil.move raises
                  /\ Raise(t, "move error")
                  /\ UNCHANGED << tasks, storage, workspace >>
               \/ /\ storage' = Relocate(storage, FinalOutputPath(t, f))
                  /\ IF t \in DOMAIN tasks
                     THEN /\ \E el \in Elapsed :
                               tasks' = [tasks EXCEPT
                                  ![t] = MarkCompleted(@, FinalOutputPath(t, f), el)]
                          /\ pc' = [pc EXCEPT ![t] = "done"]
                          /\ workspace' = Cleanup(workspace, t)
                          /\ UNCHANGED fault
                     ELSE \* KeyError at line 257
                          /\ Raise(t, "KeyError")
                          /\ UNCHANGED << tasks, workspace >>
    /\ resp' = NoResponse
    /\ UNCHANGED << started, model_loaded, issued, request, deleted >>
    /\ UNCHANGED sync_vars

\* the synchronous generation_loop call of run t ends
pv_engine_return(t) ==
    /\ pc[t] = "engine"
    /\ \E r \in EngineReturns : engine_returned(t, r[1], r[2])

\* lines 266-277: the except-branch records the failure, then the
\* finally-branch removes temp_dir; `e` is unbound when the branch is left
pv_except(t) ==
    /\ pc[t] = "except"
    /\ \E el \in Elapsed : FailTask(t, fault[t], el)
    /\ fault' = [fault EXCEPT ![t] = NoFault]
    /\ workspace' = Cleanup(workspace, t)
    /\ resp' = NoResponse
    /\ UNCHANGED << started, model_loaded, issued, request, storage, deleted >>
    /\ UNCHANGED sync_vars

\* ------------------------------------------------- GET /status/{task_id}
get_task_status(t) ==
    /\ started
    /\ EventLoopFree
    /\ resp' = IF t \notin DOMAIN tasks
               THEN Response("status", t, 404, "Task not found", None)
               ELSE Response("status", t, 200, "", tasks[t])
    /\ UNCHANGED << started, model_loaded, tasks, issued, pc, request,
                    workspace, storage, deleted, fault >>
    /\ UNCHANGED sync_vars

download_resultMut(t) ==
    /\ started
    /\ EventLoopFree
    /\ resp' = IF t \notin DOMAIN tasks
               THEN Response("download", t, 404, "Task not found", None)
               ELSE IF tasks[t].output_path = None
                       \/ tasks[t].output_path \notin storage
               THEN Response("download", t, 404, "Output file not found", None)
               ELSE Response("download", t, 200, "", tasks[t].output_path)
    /\ UNCHANGED << started, model_loaded, tasks, issued, pc, request,
                    workspace, storage, deleted, fault >>
    /\ UNCHANGED sync_vars

\* ----------------------------------------------- GET /download/{task_id}
download_result(t) ==
    /\ started
    /\ EventLoopFree
    /\ resp' = IF t \notin DOMAIN tasks
               THEN Response("download", t, 404, "Task not found", None)
               ELSE IF tasks[t].status # "completed"
               THEN Response("download", t, 400, "Task not completed", None)
               ELSE IF tasks[t].output_path = None
                       \/ tasks[t].output_path \notin storage
               THEN Response("download", t, 404, "Output file not found", None)
               ELSE Response("download", t, 200, "", tasks[t].output_path)
    /\ UNCHANGED << started, model_loaded, tasks, issued, pc, request,
                    workspace, storage, deleted, fault >>
    /\ UNCHANGED sync_vars

\* ------------------------------------------------------------ GET /tasks
list_tasks ==
    /\ started
    /\ EventLoopFree
    /\ resp' = Response("list", None, 200, "", tasks)
    /\ UNCHANGED << started, model_loaded, tasks, issued, pc, request,
                    workspace, storage, deleted, fault >>
    /\ UNCHANGED sync_vars

\* ----------------------------------------------- DELETE /tasks/{task_id}
delete_task(t) ==
    /\ started
    /\ EventLoopFree
    /\ IF t \notin DOMAIN tasks
       THEN /\ resp' = Response("delete", t, 404, "Task not found", None)
            /\ UNCHANGED << tasks, storage, deleted >>
       ELSE /\ storage' = IF tasks[t].output_path # None
                             /\ tasks[t].output_path \in storage
                          THEN storage \ {tasks[t].output_path}
                          ELSE storage
            /\ tasks' = Remove(tasks, t)
            /\ deleted' = deleted \cup {t}
            /\ resp' = Response("delete", t, 200, "Task deleted successfully",
                                None)
    /\ UNCHANGED << started, model_loaded, issued, pc, request, workspace,
                    fault >>
    /\ UNCHANGED sync_vars

\* ------------------------------------------------------------ environment
\* a file of /app/results disappears without the server's doing (the case
\* the os.path.exists tests at lines 305 and 328 provide for)
storage_lost(p) ==
    /\ p \in storage
    /\ storage' = storage \ {p}
    /\ UNCHANGED << started, model_loaded, tasks, issued, pc, request,
                    workspace, deleted, fault, resp >>
    /\ UNCHANGED sync_vars

\* =================================================================
\* RunPod serverless worker (src/runpod_handler.py)
\* =================================================================
\* a call that returned v / a call that raised exception [type, msg]
Ret(v) == [raised |-> FALSE, value |-> v]
Exc(type, msg) == [raised |-> TRUE, value |-> [type |-> type, msg |-> msg]]

\* the dict built at lines 146-150 and 198-202
ErrorResult(e) ==
    [status |-> "error", error |-> e.msg, error_type |-> e.type]

CatchMut(r) == r

\* `except Exception as e: return {...}` (lines 144-150, 196-202)
Catch(r) == IF r.raised THEN Ret(ErrorResult(r.value)) ELSE r

\* the temporary input file and output directory of the n-th call, and the
\* file the engine returns
TempInput(n) == << "tmp", n >>
OutputDir(n) == << "outdir", n >>
ResultPath(n) == << "outdir", n, "result.mp4" >>

\* the dict built at lines 130-142
SuccessResult(w, job, n) ==
    [ status       |-> "success",
      result_video |-> << "b64", ResultPath(n) >>,
      result_path  |-> ResultPath(n),
      parameters   |-> [params |-> job.params, model_size |-> w.model_size] ]

OwnsInputMut(job) == TRUE

\* line 127, `if video_data:`: the input is the temporary file of this call
OwnsInput(job) == ~Falsy(job.video_data)

StoreWorkerMut(w) == None

\* line 160, `worker = SeedVRWorker()`: the global keeps the new worker
StoreWorker(w) == << w >>

\* SeedVRWorker.process_video, lines 80-150, as the n-th call: what it
\* returns and what it does to the file system and the engine
process_video(w, job, env, n) ==
    LET conv_ok   == job.params # BadParams                       \* 86-91
        have      == ~(Falsy(job.video_data) /\ Falsy(job.video_url)) \* 94
        use_data  == ~Falsy(job.video_data)                        \* 98
        reach_in  == conv_ok /\ have
        b64_ok    == job.video_data # BadB64                       \* 58
        file_made == reach_in /\ use_data /\ b64_ok
                        /\ env.tmp \in {"ok", "write_raises"}      \* 61
        input_ok  == reach_in /\ (use_data => (b64_ok /\ env.tmp = "ok"))
        dir_made  == input_ok /\ env.mkdtemp = "ok"                \* 106
        engine_ok == dir_made /\ env.engine = "returns"            \* 111
        encode_ok == engine_ok /\ env.encode = "ok"                \* 124
        unlinks   == encode_ok /\ OwnsInput(job)                  \* 127-128
        input_path == IF use_data THEN TempInput(n) ELSE job.video_url
        outcome ==
            IF ~conv_ok THEN Exc("ValueError", "could not convert string to float")
            ELSE IF ~have
            THEN Exc("ValueError",
                     "Either 'video_data' (base64) or 'video_url' must be provided")
            ELSE IF use_data /\ ~b64_ok THEN Exc("Error", "Incorrect padding")
            ELSE IF use_data /\ env.tmp # "ok" THEN Exc("OSError", "tempfile error")
            ELSE IF ~dir_made THEN Exc("OSError", "mkdtemp error")
            ELSE IF ~engine_ok THEN Exc("RuntimeError", "engine error")
            ELSE IF ~encode_ok THEN Exc("FileNotFoundError", "result not found")
            ELSE Ret(SuccessResult(w, job, n))
    IN  [ ret           |-> Catch(outcome),
          engine_calls  |-> IF dir_made THEN 1 ELSE 0,
          engine_input  |-> IF dir_made THEN input_path ELSE None,
          created_files |-> IF file_made THEN {TempInput(n)} ELSE {},
          created_dirs  |-> IF dir_made THEN {OutputDir(n)} ELSE {},
          unlinked      |-> IF unlinks THEN {input_path} ELSE {} ]

\* handler, lines 164-202, with initialize_worker, lines 155-162
handler(job, env) ==
    /\ calls < MaxCalls
    /\ calls' = calls + 1
    /\ LET n == calls + 1 IN
       IF worker = None /\ env.init = "raises"
       THEN \* SeedVRWorker() raises at line 52; worker is not assigned
            /\ worker' = None
            /\ constructed' = constructed
            /\ UNCHANGED << tmpfiles, outdirs >>
            /\ LET r == Catch(Exc("RuntimeError", "model init error")) IN
               last' = [ job |-> job, raised |-> r.raised, result |-> r.value,
                         engine_calls |-> 0, engine_input |-> None,
                         created_files |-> {}, created_dirs |-> {},
                         unlinked |-> {}, init_failed |-> TRUE ]
       ELSE LET w == IF worker = None
                     THEN [model_size |-> env.model_size]
                     ELSE worker[1]
                pv == process_video(w, job, env, n)
                r  == Catch(pv.ret)
            IN  /\ worker' = IF worker = None THEN StoreWorker(w) ELSE worker
                /\ constructed' = IF worker = None THEN constructed + 1
                                                   ELSE constructed
                /\ tmpfiles' = (tmpfiles \cup pv.created_files) \ pv.unlinked
                /\ outdirs' = outdirs \cup pv.created_dirs
                /\ last' = [ job |-> job, raised |-> r.raised,
                             result |-> r.value,
                             engine_calls |-> pv.engine_calls,
                             engine_input |-> pv.engine_input,
                             created_files |-> pv.created_files,
                             created_dirs |-> pv.created_dirs,
                             unlinked |-> pv.unlinked,
                             init_failed |-> FALSE ]
    /\ UNCHANGED api_vars

SyncNext == \E job \in JobInputs, env \in Envs : handler(job, env)

\* the serverless worker process: handler calls, one at a time
SyncSpec == Init /\ [][SyncNext]_vars

\* ------------------------------------------------------------------ Next
Next ==
    \/ Lifespan
    \/ \E ct \in ContentTypes, ms \in QueryModelSizes : create_inference(ct, ms)
    \/ \E t \in TaskIds : pv_start(t)
    \/ \E t \in TaskIds : pv_stage(t)
    \/ \E t \in TaskIds : pv_resume(t)
    \/ \E t \in TaskIds : pv_engine_return(t)
    \/ \E t \in TaskIds : pv_except(t)
    \/ \E t \in TaskIds : get_task_status(t)
    \/ \E t \in TaskIds : download_result(t)
    \/ list_tasks
    \/ \E t \in TaskIds : delete_task(t)
    \/ \E p \in storage : storage_lost(p)

Spec == Init /\ [][Next]_vars

\* the event loop runs every scheduled background task and every resumed
\* coroutine; the engine call returns or raises
Fairness ==
    \A t \in TaskIds :
        /\ WF_vars(pv_start(t))
        /\ WF_vars(pv_stage(t))
        /\ WF_vars(pv_resume(t))
        /\ WF_vars(pv_engine_return(t))
        /\ WF_vars(pv_except(t))

LiveSpec == Spec /\ Fairness

TypeOK ==
    /\ started \in BOOLEAN
    /\ model_loaded \in BOOLEAN
    /\ DOMAIN tasks \subseteq issued
    /\ issued \subseteq TaskIds
    /\ \A t \in TaskIds : pc[t] \in {"none", "scheduled", "staging", "reading", "engine", "except",
                                     "done", "raised"}
    /\ workspace \subseteq TaskIds
    /\ deleted \subseteq issued

\* =================================================================
\* Properties
\* =================================================================
Terminal(t) ==
    t \in DOMAIN tasks /\ tasks[t].status \in {"completed", "failed"}

EngineRunning(t) == pc[t] = "engine"

\* the status moves a record may make in one step
StatusMoves ==
    { <<"pending", "processing">>,
      <<"processing", "completed">>,
      <<"processing", "failed">> }

\* C1: the status of a record follows pending -> processing ->
\* (completed | failed): a record starts pending under an id that never had
\* a record, and every later change of its status is one of these moves, so
\* it never moves backwards, never skips processing and never leaves a
\* terminal status.
C1_StatusMonotone ==
    [][ \A t \in TaskIds :
          /\ (t \notin DOMAIN tasks /\ t \in DOMAIN tasks')
                => (t \notin issued /\ tasks'[t].status = "pending")
          /\ (t \in DOMAIN tasks /\ t \in DOMAIN tasks')
                => \/ tasks'[t].status = tasks[t].status
                   \/ <<tasks[t].status, tasks'[t].status>> \in StatusMoves
      ]_vars

C1_Witness ==
    \E a, b \in DOMAIN tasks :
        /\ tasks[a].status = "completed"
        /\ tasks[b].status = "failed"

\* C2: in every reachable state, a record's output_path is non-null exactly
\* when its status is completed.
C2_OutputIffCompleted ==
    \A t \in DOMAIN tasks :
        (tasks[t].output_path # None) <=> (tasks[t].status = "completed")

C2_Witness ==
    \E t \in DOMAIN tasks :
        /\ tasks[t].status = "completed"
        /\ tasks[t].output_path \in storage
        /\ pc[t] = "done"

\* C3: in every reachable state, a record's processing_time is set exactly
\* when its status is completed or failed.
C3_DurationIffTerminal ==
    \A t \in DOMAIN tasks :
        (tasks[t].processing_time # None) <=> Terminal(t)

C3_Witness ==
    \E t \in DOMAIN tasks :
        /\ tasks[t].status = "failed"
        /\ tasks[t].processing_time # None
        /\ tasks[t].message = "Processing failed: engine error"

\* C4: no two jobs are inside the engine call at the same time.
C4_EngineMutex ==
    \A a, b \in TaskIds :
        (EngineRunning(a) /\ EngineRunning(b)) => a = b

\* one job is inside the engine call while another run is waiting to enter it
C4_Witness ==
    \E a, b \in TaskIds :
        /\ a # b
        /\ EngineRunning(a)
        /\ pc[b] = "reading"

\* C5 (as claimed): every record created by create_inference eventually has
\* status completed or failed.
C5_EventuallyTerminal ==
    \A t \in TaskIds : (t \in DOMAIN tasks) ~> Terminal(t)

\* C5 (amended): every record created by create_inference eventually has
\* status completed or failed, unless delete_task removes it first.
C5_EventuallyTerminalOrDeleted ==
    \A t \in TaskIds : (t \in DOMAIN tasks) ~> (Terminal(t) \/ t \in deleted)

\* two jobs whose runs overlapped have both reached a terminal status
C5_Witness ==
    /\ deleted = {}
    /\ \E a, b \in TaskIds :
          /\ a # b
          /\ Terminal(a) /\ pc[a] = "done"
          /\ Terminal(b) /\ pc[b] = "done"

\* C6: submission never blocks on execution: whenever a job's engine call is
\* in progress (and uuid4 still has an id to give), a create_inference
\* request can be served.
C6_SubmissionNeverBlocks ==
    ((\E t \in TaskIds : EngineRunning(t)) /\ issued # TaskIds)
        => ENABLED (\E ct \in ContentTypes, ms \in QueryModelSizes :
                        create_inference(ct, ms))

\* C7: once delete_task(X) has succeeded, X has no record and no file of X
\* is in the results directory.
C7_DeleteRemovesRecordAndArtifact ==
    \A t \in deleted :
        /\ t \notin DOMAIN tasks
        /\ \A f \in FileNames : FinalOutputPath(t, f) \notin storage

\* C8: download_result(X) answers 200 with the artifact exactly when X has a
\* record with status completed whose output file is in the results
\* directory; it answers 400 "Task not completed" when the record has any
\* other status, 404 when the file is absent and 404 when X has no record
\* (in particular after X was deleted); it changes neither the store nor the
\* results directory.
C8_DownloadContract ==
    [][ \A t \in TaskIds :
          download_result(t) =>
            /\ tasks' = tasks
            /\ storage' = storage
            /\ resp'.op = "download" /\ resp'.arg = t
            /\ resp'.code \in {200, 400, 404}
            /\ (resp'.code = 200) <=>
                  /\ t \in DOMAIN tasks
                  /\ tasks[t].status = "completed"
                  /\ tasks[t].output_path \in storage
            /\ (resp'.code = 200) => resp'.body = tasks[t].output_path
            /\ (resp'.code = 400) <=>
                  /\ t \in DOMAIN tasks
                  /\ tasks[t].status # "completed"
            /\ (t \in deleted) => resp'.code = 404
            /\ (t \notin DOMAIN tasks) => resp'.detail = "Task not found"
      ]_vars

\* the four answers of download_result
C8_Witness ==
    /\ resp.op = "download"
    /\ resp.code = 404
    /\ resp.detail = "Output file not found"
    /\ \E t \in DOMAIN tasks : tasks[t].status = "completed"
    /\ \E t \in deleted : TRUE

\* the content types of the model that are media types "video/..."
VideoTypes == { <<"video", "/", "mp4">> }

\* C9 (as claimed): a submission whose content type is not a video type is
\* answered with the validation error (400), creates no record and schedules
\* no run.
C9_BadMediaTypeValidationError ==
    [][ \A ct \in ContentTypes, ms \in QueryModelSizes :
          (create_inference(ct, ms) /\ ct \notin VideoTypes) =>
            /\ resp'.code = 400
            /\ tasks' = tasks
            /\ pc' = pc
      ]_vars

\* C9 (amended): a submission whose content type is not a video type is
\* rejected before any record is created and no run is scheduled; the answer
\* is the validation error (400 "File must be a video") when the model is
\* loaded and 503 "Model not loaded" when it is not.
C9_BadMediaTypeRejected ==
    [][ \A ct \in ContentTypes, ms \in QueryModelSizes :
          (create_inference(ct, ms) /\ ct \notin VideoTypes) =>
            /\ tasks' = tasks
            /\ issued' = issued
            /\ pc' = pc
            /\ request' = request
            /\ resp'.op = "create"
            /\ resp'.arg.content_type = ct
            /\ resp'.code = IF model_loaded THEN 400 ELSE 503
            /\ resp'.body = None
      ]_vars

\* a non-video upload was refused while a job already existed
C9_Witness ==
    /\ resp.op = "create"
    /\ resp.code = 400
    /\ resp.arg.content_type \notin VideoTypes
    /\ DOMAIN tasks # {}

\* C10: a submission naming an engine variant outside {3b, 7b} is rejected
\* with a validation error and creates no record.
C10_UnknownVariantRejected ==
    [][ \A ct \in ContentTypes, ms \in QueryModelSizes :
          (create_inference(ct, ms) /\ ms \notin SupportedSizes /\ ms # "absent")
            => /\ resp'.code # 200
               /\ tasks' = tasks
               /\ pc' = pc
      ]_vars

\* C11: a successful create_inference adds exactly one record, under an id
\* that never had a record, with status pending and output_path and
\* processing_time null; it leaves every other record unchanged, schedules
\* exactly one run, for that id, and returns that id with status pending.
C11_CreateAddsOnePending ==
    [][ \A ct \in ContentTypes, ms \in QueryModelSizes :
          (create_inference(ct, ms) /\ resp'.code = 200) =>
            \E id \in TaskIds :
                /\ id \notin issued
                /\ id \notin DOMAIN tasks
                /\ DOMAIN tasks' = DOMAIN tasks \cup {id}
                /\ tasks'[id].status = "pending"
                /\ tasks'[id].output_path = None
                /\ tasks'[id].processing_time = None
                /\ \A o \in DOMAIN tasks : tasks'[o] = tasks[o]
                /\ pc[id] = "none"
                /\ pc'[id] = "scheduled"
                /\ \A o \in TaskIds \ {id} : pc'[o] = pc[o]
                /\ resp'.body = [task_id |-> id, status |-> "pending"]
      ]_vars

\* a job was accepted while an earlier job was already past pending
C11_Witness ==
    /\ resp.op = "create"
    /\ resp.code = 200
    /\ resp.body.task_id \in DOMAIN tasks
    /\ \E o \in DOMAIN tasks :
          /\ o # resp.body.task_id
          /\ tasks[o].status # "pending"

C13_SyncWorkspaceReleased ==
    /\ tmpfiles = {}
    /\ outdirs = {}

\* C14: no background run ends with an uncaught exception.
C14_NoUncaughtException ==
    \A t \in TaskIds : pc[t] # "raised"

\* a handler call that supplied neither video_data nor video_url
NoVideo(job) ==
    /\ job.video_data \in {Absent, ""}
    /\ job.video_url \in {Absent, ""}

C16_HandlerAlwaysReturns ==
    (calls > 0) =>
        /\ ~last.raised
        /\ last.engine_calls <= 1
        /\ last.result.status \in {"success", "error"}
        /\ (last.result.status = "success") =>
              /\ last.engine_calls = 1
              /\ last.result.result_video = << "b64", last.result.result_path >>
              /\ last.result.parameters.params = last.job.params
              /\ last.result.parameters.model_size = worker[1].model_size
        /\ (last.result.status = "error") =>
              DOMAIN last.result = {"status", "error", "error_type"}

\* a call succeeded after an earlier call failed to construct the worker
C16_Witness ==
    /\ calls = 2
    /\ constructed = 1
    /\ last.result.status = "success"
    /\ tmpfiles = {}

\* C17: delete_task on an id without a record answers 404 and changes
\* neither the store nor the results directory; so a delete of an id that
\* was deleted before answers 404.
C17_DeleteUnknownNotFound ==
    [][ \A t \in TaskIds :
          delete_task(t) =>
            /\ (t \notin DOMAIN tasks) =>
                  /\ resp'.code = 404
                  /\ tasks' = tasks
                  /\ storage' = storage
                  /\ deleted' = deleted
            /\ (t \in deleted) => resp'.code = 404
      ]_vars

\* a second delete of the same id was refused
C17_Witness ==
    /\ resp.op = "delete"
    /\ resp.code = 404
    /\ resp.arg \in deleted

\* C18: when a run whose record exists handles a failure of one of its
\* steps, the record becomes failed, its message carries the text of the
\* failure, processing_time is set and output_path stays null; no step of a
\* run sends a response to a client.
C18_FailureRecorded ==
    [][ \A t \in TaskIds :
          /\ (pv_except(t) /\ t \in DOMAIN tasks) =>
                /\ tasks'[t].status = "failed"
                /\ tasks'[t].message = "Processing failed: " \o fault[t]
                /\ tasks'[t].processing_time # None
                /\ tasks'[t].output_path = None
                /\ pc'[t] = "done"
          /\ (pc'[t] # pc[t] /\ pc[t] # "none") => resp' = NoResponse
      ]_vars

C18_Witness ==
    \E t \in DOMAIN tasks :
        /\ pc[t] = "done"
        /\ tasks[t].message = "Processing failed: No output file generated"
        /\ tasks[t].output_path = None

\* C19: a record becomes completed only from processing, at the return of
\* an engine call with no failure, and in the state where it becomes
\* completed the file its output_path names is in the results directory.
C19_CompletedAfterRelocation ==
    [][ \A t \in TaskIds :
          ( /\ t \in DOMAIN tasks'
            /\ tasks'[t].status = "completed"
            /\ (t \in DOMAIN tasks => tasks[t].status # "completed") )
          => /\ t \in DOMAIN tasks
             /\ tasks[t].status = "processing"
             /\ pc[t] = "engine"
             /\ fault'[t] = NoFault
             /\ tasks'[t].output_path \in storage'
      ]_vars

\* the state right after a run completed with the second output file
C19_Witness ==
    /\ resp = NoResponse
    /\ \E t \in DOMAIN tasks :
          /\ tasks[t].status = "completed"
          /\ tasks[t].output_path = FinalOutputPath(t, "b.mp4")
          /\ tasks[t].output_path \in storage

\* C20 (as claimed): a record is pending as long as the workspace of its run
\* has not been allocated, and processing during the engine call.
C20_PendingUntilWorkspace ==
    \A t \in DOMAIN tasks :
        /\ (pc[t] \in {"scheduled", "staging"} /\ t \notin workspace)
              => tasks[t].status = "pending"
        /\ EngineRunning(t) => tasks[t].status = "processing"

\* C20 (amended): a record is pending until its run starts; the transition
\* to processing is the first thing the run does, before the workspace is
\* allocated, and the record stays processing during staging, the input
\* read and the whole engine call.
C20_ProcessingFromRunStart ==
    \A t \in DOMAIN tasks :
        /\ (pc[t] = "scheduled") => tasks[t].status = "pending"
        /\ (pc[t] \in {"staging", "reading", "engine"})
              => tasks[t].status = "processing"

\* a record is already processing while its run has no workspace yet
C20_Witness ==
    \E t \in DOMAIN tasks :
        /\ pc[t] = "staging"
        /\ tasks[t].status = "processing"
        /\ t \notin workspace

\* C21: the file chosen for relocation is a function of the set of files
\* the engine left in output_dir: whenever a run relocates a file, the file
\* relocated is the one every other listing of the same directory content
\* would have selected.
C21_SelectionDeterministic ==
    [][ \A t \in TaskIds, out \in EngineOutcomes :
          \A e1, e2 \in glob(out.files) :
              (engine_returned(t, out, e1) /\ storage' # storage)
                 => storage' \ storage = { FinalOutputPath(t, SelectOutput(e2)) }
      ]_vars

\* a step of the process_video run of t
RunStep(t) == pc[t] # "none" /\ pc'[t] # pc[t]

\* C22: a step of the run of A changes no record but A's and neither adds
\* nor removes a record; get_task_status, list_tasks and download_result
\* change neither the store nor the results directory; a record that
\* changes is changed by a step of its own run, and a record that
\* disappears is removed by a successful delete_task for its id.
C22_OnlyOwnerMutates ==
    [][ /\ \A a \in TaskIds :
              RunStep(a) =>
                 /\ DOMAIN tasks' = DOMAIN tasks
                 /\ \A b \in DOMAIN tasks \ {a} : tasks'[b] = tasks[b]
        /\ \A t \in TaskIds :
              (get_task_status(t) \/ download_result(t) \/ list_tasks)
                 => (tasks' = tasks /\ storage' = storage)
        /\ \A b \in DOMAIN tasks :
              /\ (b \in DOMAIN tasks' /\ tasks'[b] # tasks[b]) => RunStep(b)
              /\ (b \notin DOMAIN tasks') =>
                    (resp'.op = "delete" /\ resp'.arg = b /\ resp'.code = 200)
      ]_vars

\* the run of one job has just completed its record while the record of
\* another job is still as create_inference wrote it
C22_Witness ==
    /\ resp = NoResponse
    /\ \E a, b \in DOMAIN tasks :
          /\ a # b
          /\ tasks[a].status = "completed"
          /\ pc[a] = "done"
          /\ tasks[b] = NewTask

\* position of a run in process_video
PcRank(p) ==
    CASE p = "none"      -> 0
      [] p = "scheduled" -> 1
      [] p = "staging"   -> 2
      [] p = "reading"   -> 3
      [] p = "engine"    -> 4
      [] p = "except"    -> 5
      [] OTHER           -> 6

\* C23: a run only moves forward, so each job id has at most one run and
\* enters the engine at most once (from the input read); a run that has
\* ended never takes another step, and a failed record stays failed until
\* delete_task removes it.
C23_NoRetry ==
    [][ \A t \in TaskIds :
          /\ PcRank(pc'[t]) >= PcRank(pc[t])
          /\ (pc'[t] = "engine" /\ pc[t] # "engine") => pc[t] = "reading"
          /\ (pc[t] \in {"done", "raised"}) => pc'[t] = pc[t]
          /\ (t \in DOMAIN tasks /\ tasks[t].status = "failed") =>
                \/ (t \in DOMAIN tasks' /\ tasks'[t] = tasks[t])
                \/ (t \notin DOMAIN tasks' /\ resp'.op = "delete" /\ resp'.arg = t)
      ]_vars

\* a failed job was polled after its run had ended in the engine
C23_Witness ==
    /\ resp.op = "status"
    /\ resp.code = 200
    /\ pc[resp.arg] = "done"
    /\ resp.body.status = "failed"
    /\ resp.body.message = "Processing failed: engine error"

\* the complete states of a record
CompleteRecord(rec) ==
    \/ /\ rec.status = "pending"
       /\ rec.message = "Task created, processing will start shortly"
       /\ rec.output_path = None
       /\ rec.processing_time = None
    \/ /\ rec.status = "processing"
       /\ rec.message = "Processing video..."
       /\ rec.output_path = None
       /\ rec.processing_time = None
    \/ /\ rec.status = "completed"
       /\ rec.message = "Video processing completed successfully"
       /\ rec.output_path # None
       /\ rec.processing_time # None
    \/ /\ rec.status = "failed"
       /\ rec.message \notin { "Task created, processing will start shortly",
                               "Processing video...",
                               "Video processing completed successfully" }
       /\ rec.output_path = None
       /\ rec.processing_time # None

\* C24: every record that get_task_status or list_tasks returns, and every
\* record of the store in every reachable state, is one of the complete
\* record states (pending, processing, completed, failed), never a mixture
\* of the fields of two of them.
C24_NoTornReads ==
    /\ \A t \in DOMAIN tasks : CompleteRecord(tasks[t])
    /\ (resp.op = "status" /\ resp.code = 200) => CompleteRecord(resp.body)
    /\ (resp.op = "list") => \A t \in DOMAIN resp.body : CompleteRecord(resp.body[t])

\* the store was listed while one run was suspended at its await and
\* another had ended
C24_Witness ==
    /\ resp.op = "list"
    /\ \E a, b \in DOMAIN resp.body :
          /\ resp.body[a].status = "processing"
          /\ pc[a] = "reading"
          /\ resp.body[b].status \in {"completed", "failed"}

\* C25: once delete_task has succeeded for an id, the id is never again a
\* key of the task store, whatever its run does afterwards.
C25_DeletionPermanent ==
    \A x \in deleted : x \notin DOMAIN tasks

\* the run of a deleted job has reached a status update and ended
C25_Witness ==
    /\ resp = NoResponse
    /\ \E x \in deleted :
          /\ pc[x] = "raised"
          /\ x \notin DOMAIN tasks

\* C26: a run that starts after its record was deleted fails at its first
\* statement: it allocates no workspace and writes no artifact, and ends
\* without entering the engine.  A run whose record is deleted while it is
\* suspended at the input read does not notice the deletion: it resumes as
\* usual and can enter the engine, and when the engine call and the move
\* succeed the artifact is in the results directory before the missing
\* record is detected.
C26_DeleteVersusRun ==
    [][ \A t \in TaskIds :
          (t \notin DOMAIN tasks /\ RunStep(t)) =>
             /\ (pc[t] = "scheduled") =>
                   /\ pc'[t] = "except"
                   /\ fault'[t] = "KeyError"
                   /\ workspace' = workspace
                   /\ storage' = storage
             /\ (pc[t] = "except") =>
                   /\ pc'[t] = "raised"
                   /\ t \notin workspace'
                   /\ storage' = storage
             /\ (pc[t] = "reading") =>
                   /\ pc'[t] = "engine" \/ fault'[t] = "read error"
                   /\ ENABLED (pv_resume(t) /\ pc'[t] = "engine")
             /\ (pc[t] = "engine") =>
                   /\ fault'[t] \in {"engine error", "No output file generated",
                                     "move error", "KeyError"}
                   /\ (fault'[t] = "KeyError") <=>
                         (\E f \in FileNames :
                             /\ FinalOutputPath(t, f) \notin storage
                             /\ storage' = storage \cup {FinalOutputPath(t, f)})
                   /\ ENABLED (pv_engine_return(t) /\ storage' # storage)
      ]_vars

\* one job was deleted before its run started and its run has ended without
\* an artifact; another was deleted during its input read and its run has
\* left an artifact in the results directory
C26_Witness ==
    \E a, b \in deleted :
        /\ a # b
        /\ pc[a] = "raised"
        /\ \A f \in FileNames : FinalOutputPath(a, f) \notin storage
        /\ pc[b] = "raised"
        /\ \E f \in FileNames : FinalOutputPath(b, f) \in storage

\* C27: while model_loaded is false, every create_inference is answered 503
\* and no record exists and no run is scheduled, so no run ever reaches the
\* engine.
C27_UnloadedRejectsAll ==
    (~model_loaded) =>
        /\ tasks = << >>
        /\ issued = {}
        /\ \A t \in TaskIds : pc[t] = "none"
        /\ (resp.op = "create") => (resp.code = 503 /\ resp.body = None)

\* an upload of a video was refused after the model had failed to load
C27_Witness ==
    /\ started
    /\ ~model_loaded
    /\ resp.op = "create"
    /\ resp.code = 503
    /\ resp.arg.content_type \in VideoTypes

\* C28: a handler call deletes only an input it created: a call whose input
\* is the video_url (video_data absent or empty) hands that path to the
\* engine unchanged and deletes nothing; a call with video_data deletes at
\* most the temporary file decoded in that call.
C28_UnlinkOnlyOwnInput ==
    (calls > 0) =>
        /\ last.unlinked \subseteq last.created_files
        /\ last.unlinked \subseteq { TempInput(calls) }
        /\ (last.job.video_data \in {Absent, ""}) =>
              /\ last.unlinked = {}
              /\ last.created_files = {}
              /\ (last.engine_calls = 1) => last.engine_input = last.job.video_url
        /\ (last.job.video_data \notin {Absent, ""} /\ last.engine_calls = 1) =>
              last.engine_input = TempInput(calls)

\* a call with a video_url only succeeded after a call with video_data whose
\* temporary file was removed
C28_Witness ==
    /\ calls = 2
    /\ last.job.video_data = Absent
    /\ last.job.video_url = "/in/v.mp4"
    /\ last.result.status = "success"
    /\ last.engine_input = "/in/v.mp4"
    /\ tmpfiles = {}
    /\ Cardinality(outdirs) = 2

\* C29: at most one SeedVRWorker is ever constructed successfully; once the
\* global worker is set every call reuses it; a call in which construction
\* fails leaves the global unset, returns an error result and does not
\* invoke the engine, and the next call can construct the worker.
C29_LazySingleton ==
    [][ (calls' # calls) =>
          /\ constructed' <= 1
          /\ (worker # None) =>
                /\ worker' = worker
                /\ constructed' = constructed
                /\ ~last'.init_failed
          /\ (worker = None) =>
                IF last'.init_failed
                THEN /\ worker' = None
                     /\ constructed' = constructed
                     /\ last'.result.status = "error"
                     /\ last'.engine_calls = 0
                     /\ (calls' < MaxCalls) => ENABLED (SyncNext /\ worker' # None)
                ELSE /\ worker' # None
                     /\ constructed' = constructed + 1
      ]_vars

\* two calls ran the engine on the one worker
C29_Witness ==
    /\ calls = 2
    /\ constructed = 1
    /\ worker # None
    /\ last.engine_calls = 1
    /\ Cardinality(outdirs) = 2
    /\ last.job.video_data = GoodB64

====
